---- MODULE Spec2Model ----
(***************************************************************************)
(* Model of the downloader's Redis storage layer (src/storage.go): job     *)
(* records kept as Redis hashes, the per-aggregation pending-download      *)
(* lists "jobs:<aggr>", the global callback list "CallbackQueue", and the  *)
(* download attempt Job.Perform run by the aggregation worker pools; and   *)
(* of the validation of submissions (src/job/aggregation.go).              *)
(***************************************************************************)
EXTENDS Integers, Sequences, FiniteSets, TLC

(***************************************************************************)
(* Bounds of the model.                                                    *)
(***************************************************************************)
\* number of jobs the ingestion endpoint submits in one behaviour
MaxJobs == 2
\* number of Store transport failures and process crashes in one behaviour
MaxFaults == 1

(***************************************************************************)
(* Program constants.                                                      *)
(***************************************************************************)
aggrKeyPrefix == "aggr:"
jobKeyPrefix == "jobs:"
callbackQueue == "CallbackQueue"
maxDownloadRetries == 3
\* "the same bound as downloads unless configured otherwise" (spec 4.5)
maxCallbackRetries == maxDownloadRetries

StatePending == "Pending"
StateInProgress == "InProgress"
StateSuccess == "Success"
StateFailed == "Failed"
States == {StatePending, StateInProgress, StateSuccess, StateFailed}

\* the nil error
nil == ""

(***************************************************************************)
(* Strings.  A Redis value that holds a number is the sequence of its      *)
(* characters, so that formatting and parsing are computed, not assumed.   *)
(***************************************************************************)
Digits == <<"0", "1", "2", "3", "4", "5", "6", "7", "8", "9">>

RECURSIVE FormatUint(_)
FormatUint(n) ==
    IF n < 10 THEN <<Digits[n + 1]>>
    ELSE FormatUint(n \div 10) \o <<Digits[(n % 10) + 1]>>

\* strconv.Itoa, as go-redis formats an int argument of HMSET
Itoa(n) == IF n < 0 THEN <<"-">> \o FormatUint(-n) ELSE FormatUint(n)

DigitVal(c) == CHOOSE d \in 0..9 : Digits[d + 1] = c
IsDigit(c) == \E d \in 0..9 : Digits[d + 1] = c

RECURSIVE ParseUint(_, _)
ParseUint(s, acc) ==
    IF s = <<>> THEN acc
    ELSE ParseUint(Tail(s), acc * 10 + DigitVal(Head(s)))

\* strconv.Atoi: [ok |-> the syntax is valid, n |-> the value]
Atoi(s) ==
    LET body == IF s # <<>> /\ Head(s) \in {"-", "+"} THEN Tail(s) ELSE s
    IN  IF body = <<>> \/ \E i \in 1..Len(body) : ~IsDigit(body[i])
        THEN [ok |-> FALSE, n |-> 0]
        ELSE [ok |-> TRUE,
              n |-> IF Head(s) = "-" THEN -ParseUint(body, 0)
                    ELSE ParseUint(body, 0)]

RECURSIVE Concat(_)
\* the string of the characters s (by halves, to keep the recursion flat)
Concat(s) ==
    IF s = << >> THEN ""
    ELSE IF Len(s) = 1 THEN s[1]
    ELSE Concat(SubSeq(s, 1, Len(s) \div 2))
            \o Concat(SubSeq(s, (Len(s) \div 2) + 1, Len(s)))

RECURSIVE Join(_, _)
\* strings.Join
Join(elems, sep) ==
    IF elems = <<>> THEN ""
    ELSE IF Len(elems) = 1 THEN elems[1]
    ELSE elems[1] \o sep \o Join(Tail(elems), sep)

\* strings.Contains(s, substr), on the characters of the two strings
Contains(s, substr) ==
    \E i \in 0..(Len(s) - Len(substr)) :
        SubSeq(s, i + 1, i + Len(substr)) = substr

\* the URLs of the jobs, as their characters
StrHttpFoobarCom == <<"h", "t", "t", "p", ":", "/", "/", "f", "o", "o", "b", "a", "r", ".", "c", "o", "m">>
StrHttpTlsExampleComF ==
    <<"h", "t", "t", "p", ":", "/", "/", "t", "l", "s", ".", "e", "x", "a", "m",
      "p", "l", "e", ".", "c", "o", "m", "/", "f">>

(***************************************************************************)
(* The Job struct and its Redis hash.                                      *)
(***************************************************************************)
\* the fields of Job that storage.go reads and writes
JobFields == {"ID", "URL", "AggrID", "DownloadState", "RetryCount", "Meta",
              "CallbackURL", "CallbackCount", "CallbackState", "Extra"}
IntFields == {"RetryCount", "CallbackCount"}

\* Job{}: the zero value.  A URL is kept as the sequence of its characters
\* (Perform searches the text of an error that quotes it), the other
\* strings as they are.
ZeroJob ==
    [f \in JobFields |->
        IF f \in IntFields THEN 0 ELSE IF f = "URL" THEN << >> ELSE ""]

\* the hash of a key that does not exist (HGETALL answers the empty map)
EmptyMap == << >>

\* Job.toMap: one entry per field of the struct, whatever its fields are;
\* go-redis then writes each value as a string
toMap(j) == [k \in DOMAIN j |-> IF k \in IntFields THEN Itoa(j[k]) ELSE j[k]]

\* mutant: the write keeps the fields the hash already has (HSETNX)
MutHMSetKeepsOld(old, m) ==
    [k \in (DOMAIN old) \cup (DOMAIN m) |-> IF k \in DOMAIN old THEN old[k] ELSE m[k]]

\* HMSET key field value ...: sets the given fields, keeps the others
HMSet(old, m) ==
    [k \in (DOMAIN old) \cup (DOMAIN m) |-> IF k \in DOMAIN m THEN m[k] ELSE old[k]]

\* the keys of m at which the loop of jobFromMap returns an error: a key
\* with no case in the switch, or a counter whose value strconv.Atoi refuses
Offending(m) ==
    {k \in DOMAIN m : k \notin JobFields \/ (k \in IntFields /\ ~Atoi(m[k]).ok)}

\* the error jobFromMap returns at the offending key k
DecodeError(m, k) ==
    IF k \in IntFields
    THEN "Could not decode struct from map: strconv.Atoi: parsing \""
            \o Concat(m[k]) \o "\": invalid syntax"
    ELSE "Field " \o k \o " with value " \o m[k] \o " was not found in Job struct"

\* jobFromMap: the set of the results [j |-> the job, err |-> nil or the
\* error] it can return.  The loop ranges over the map in the random order of
\* Go maps and returns at the first offending key with the job as decoded so
\* far: the fields S met before that key are set, the others are zero.
jobFromMap(m) ==
    LET decoded(S) == [f \in JobFields |->
                        IF f \notin S THEN ZeroJob[f]
                        ELSE IF f \in IntFields THEN Atoi(m[f]).n
                        ELSE m[f]]
    IN  IF Offending(m) = {}
        THEN {[j |-> decoded(DOMAIN m), err |-> nil]}
        ELSE {[j |-> decoded(S), err |-> DecodeError(m, k)] :
                S \in SUBSET ((DOMAIN m) \ Offending(m)), k \in Offending(m)}

\* Job.Save on the Store st
Save(st, j) == [st EXCEPT ![j.ID] = HMSet(@, toMap(j))]

\* GetJob on the Store st: the set of its results.  redisOk is whether the
\* HGETALL command reached Redis; its error is never read, and cmd.Val() of a
\* failed command is the nil map, on which jobFromMap returns (Job{}, nil).
GetJob(st, id, redisOk) == jobFromMap(IF redisOk THEN st[id] ELSE EmptyMap)

(***************************************************************************)
(* Redis lists.                                                            *)
(***************************************************************************)
\* Aggregation.RedisJobsKey
RedisJobsKey(aggrID) == jobKeyPrefix \o aggrID

\* mutant: LPUSH, the id goes to the head
MutRPushAtHead(ls, key, id) == [ls EXCEPT ![key] = <<id>> \o @]

\* RPUSH key id: append at the tail
RPush(ls, key, id) == [ls EXCEPT ![key] = Append(@, id)]

\* mutant: the head is read and left on the list (LINDEX 0)
MutLPopKeepsHead(ls, key) == ls

\* LPOP key: remove the head
LPop(ls, key) == [ls EXCEPT ![key] = Tail(@)]

\* the error value QueueEmptyError(key), a string type that holds the key of
\* the list, written as the Go expression of the value.  (Its Error() method
\* formats the receiver with %s, which calls Error() again: it never returns
\* a text, so the model has none.)
QueueEmptyError(key) == "QueueEmptyError(\"" \o key \o "\")"
PopTransportError == "Could not pop from redis queue: i/o timeout"


\* the list Job.QueuePendingDownload pushes the job id to
PendingDownloadKey(j) == jobKeyPrefix \o j.AggrID

\* mutant: the id goes to the aggregation's list, as in QueuePendingDownload
MutPendingCallbackKeyJobs(j) == jobKeyPrefix \o j.AggrID

\* the list Job.QueuePendingCallback pushes the job id to
PendingCallbackKey(j) == callbackQueue

\* The pops, Aggregation.PopJob and PopCallback, are two commands: LPOP, and
\* the HGETALL of GetJob.  popOk and getOk are whether the LPOP and the
\* HGETALL reached Redis (the HGETALL is issued only after an id was popped).
\* The first command: cmd := Redis.LPop(key) and the tests of cmd.Err()
PopHead(ls, key, popOk) ==
    IF ~popOk THEN [lists |-> ls, id |-> "", err |-> PopTransportError]
    ELSE IF ls[key] = <<>> THEN [lists |-> ls, id |-> "", err |-> QueueEmptyError(key)]
    ELSE [lists |-> LPop(ls, key), id |-> Head(ls[key]), err |-> nil]

\* a caller between the two commands of its pop: it holds cmd.Val(), the id
Popped(id) == [ZeroJob EXCEPT !.ID = id]

(***************************************************************************)
(* State mutation primitives of Job (the in-memory part; each is followed  *)
(* by Save in the actions below).                                          *)
(***************************************************************************)
\* mutant: the state argument is not assigned
MutSetStateKeepsState(j, state, meta) == [j EXCEPT !.Meta = Join(meta, "\n")]

\* mutant: Meta is written only when a meta argument is given
MutSetStateKeepsMeta(j, state, meta) ==
    [j EXCEPT !.DownloadState = state,
              !.Meta = IF meta = << >> THEN @ ELSE Join(meta, "\n")]

\* Job.SetState: meta is the sequence of the variadic arguments
SetState(j, state, meta) ==
    [j EXCEPT !.DownloadState = state, !.Meta = Join(meta, "\n")]

\* Job.SetCallbackState
SetCallbackState(j, state, meta) ==
    [j EXCEPT !.CallbackState = state, !.Meta = Join(meta, "\n")]

\* Job.QueuePendingDownload, before its Save
QueuePendingDownload(j) == [j EXCEPT !.DownloadState = StatePending]

\* mutant: the state set to Pending is DownloadState, as in QueuePendingDownload
MutQueuePendingCallbackSetsDownload(j) == [j EXCEPT !.DownloadState = StatePending]

\* Job.QueuePendingCallback, before its Save
QueuePendingCallback(j) == [j EXCEPT !.CallbackState = StatePending]

\* mutant: only a Pending job is refused
MutCallbackInfoPendingOnly(j) ==
    IF j.DownloadState = StatePending
    THEN [info |-> [Success |-> FALSE, Error |-> "", Extra |-> "", DownloadURL |-> ""],
          err |-> "Invalid Job State " \o j.DownloadState]
    ELSE [info |-> [Success |-> j.DownloadState = StateSuccess,
                    Error |-> j.Meta,
                    Extra |-> j.Extra,
                    DownloadURL |-> "http://localhost/" \o j.ID],
          err |-> nil]

\* Job.callbackInfo: [info |-> the envelope, err |-> nil or the error]
callbackInfo(j) ==
    IF j.DownloadState # StateSuccess /\ j.DownloadState # StateFailed
    THEN [info |-> [Success |-> FALSE, Error |-> "", Extra |-> "", DownloadURL |-> ""],
          err |-> "Invalid Job State " \o j.DownloadState]
    ELSE [info |-> [Success |-> j.DownloadState = StateSuccess,
                    Error |-> j.Meta,
                    Extra |-> j.Extra,
                    DownloadURL |-> "http://localhost/" \o j.ID],
          err |-> nil]

(***************************************************************************)
(* One download attempt: the outcomes of os.Create, http.NewRequest,       *)
(* client.Do and io.Copy, and how Job.Perform classifies them.             *)
(***************************************************************************)
\* the URLs jobs are submitted with: one whose host name holds the letters
\* "tls", one that holds neither "tls" nor "x509"
JobURLs == {StrHttpFoobarCom, StrHttpTlsExampleComF}

\* the texts of the errors the transport of client.Do fails with
StrCertificateError ==
    <<"x", "5", "0", "9", ":", " ", "c", "e", "r", "t", "i", "f", "i", "c",
      "a", "t", "e", " ", "s", "i", "g", "n", "e", "d", " ", "b", "y", " ",
      "u", "n", "k", "n", "o", "w", "n", " ", "a", "u", "t", "h", "o", "r",
      "i", "t", "y">>
StrTlsAlertError ==
    <<"r", "e", "m", "o", "t", "e", " ", "e", "r", "r", "o", "r", ":", " ",
      "t", "l", "s", ":", " ", "h", "a", "n", "d", "s", "h", "a", "k", "e",
      " ", "f", "a", "i", "l", "u", "r", "e">>
StrDialTimeoutError ==
    <<"d", "i", "a", "l", " ", "t", "c", "p", " ", "1", "2", "7", ".", "0",
      ".", "0", ".", "1", ":", "8", "0", ":", " ", "i", "/", "o", " ", "t",
      "i", "m", "e", "o", "u", "t">>
StrConnectionRefusedError ==
    <<"d", "i", "a", "l", " ", "t", "c", "p", " ", "1", "2", "7", ".", "0",
      ".", "0", ".", "1", ":", "8", "0", ":", " ", "c", "o", "n", "n", "e",
      "c", "t", ":", " ", "c", "o", "n", "n", "e", "c", "t", "i", "o", "n",
      " ", "r", "e", "f", "u", "s", "e", "d">>
StrContextCanceledError ==
    <<"c", "o", "n", "t", "e", "x", "t", " ", "c", "a", "n", "c", "e", "l",
      "e", "d">>

\* what makes client.Do fail (cause: a certificate that does not verify, a
\* TLS alert of the server, a connection that times out, a connection that is
\* refused, the cancellation of ctx) and the text of the error of each (msg)
DoErrors ==
    {[cause |-> "certificate", msg |-> StrCertificateError],
     [cause |-> "tlsAlert", msg |-> StrTlsAlertError],
     [cause |-> "timeout", msg |-> StrDialTimeoutError],
     [cause |-> "refused", msg |-> StrConnectionRefusedError],
     [cause |-> "canceled", msg |-> StrContextCanceledError]}

\* err.Error() of the *url.Error client.Do returns:
\* Op + " " + strconv.Quote(URL) + ": " + Err.Error(), Op being "Get"
URLErrorText(url, msg) ==
    <<"G", "e", "t", " ", "\"">> \o url \o <<"\"", ":", " ">> \o msg

\* strings.Contains(err.Error(), "x509") and strings.Contains(err.Error(), "tls")
ContainsX509(e) == Contains(e, <<"x", "5", "0", "9">>)
ContainsTls(e) == Contains(e, <<"t", "l", "s">>)

StatusCodes == {200, 399, 400, 499, 500}
\* resp.Status for the codes Perform prints it for
StatusText(code) ==
    IF code = 500 THEN "Internal Server Error" ELSE "Status"
Status(code) == Concat(Itoa(code)) \o " " \o StatusText(code)

\* the outcomes of an attempt on a job with the given URL: kind is the call
\* that ended it, cause what happened, err the text of the error and, for an
\* error of client.Do, text the characters of that text; code the status code
Outcomes(url) ==
    {[kind |-> "createErr", cause |-> "file", err |-> "permission denied",
      text |-> << >>, code |-> 0]}
    \cup {[kind |-> "requestErr", cause |-> "request", err |-> "invalid URL",
           text |-> << >>, code |-> 0]}
    \cup {[kind |-> "doErr", cause |-> e.cause,
           err |-> Concat(URLErrorText(url, e.msg)),
           text |-> URLErrorText(url, e.msg), code |-> 0] : e \in DoErrors}
    \cup {[kind |-> "copyErr", cause |-> "stream", err |-> "unexpected EOF",
           text |-> << >>, code |-> c] : c \in {c \in StatusCodes : c < 400}}
    \cup {[kind |-> "resp", cause |-> "response", err |-> nil,
           text |-> << >>, code |-> c] : c \in StatusCodes}

\* Perform lines 144-186: the branch an outcome takes,
\* [route |-> "retry" (RetryOrFail), "fail" (SetState Failed, return) or
\*            "success", meta |-> the text passed on]
PerformRoute(o) ==
    IF o.kind = "createErr"
    THEN [route |-> "retry", meta |-> "Could not write to file, " \o o.err]
    ELSE IF o.kind = "requestErr"
    THEN [route |-> "retry", meta |-> "Could not create request, " \o o.err]
    ELSE IF o.kind = "doErr"
    THEN IF ContainsX509(o.text) \/ ContainsTls(o.text)
         THEN [route |-> "fail", meta |-> "TLS Error occured, " \o o.err]
         ELSE [route |-> "retry", meta |-> o.err]
    ELSE IF o.code >= 500
    THEN [route |-> "retry", meta |-> "Received status code " \o Status(o.code)]
    ELSE IF o.code >= 400 /\ o.code < 500
    THEN [route |-> "fail", meta |-> "Received Status Code " \o Concat(Itoa(o.code))]
    ELSE IF o.kind = "copyErr"
    THEN [route |-> "retry", meta |-> "Could not download file, " \o o.err]
    ELSE [route |-> "success", meta |-> ""]

\* mutant: one retry more (<= for <)
MutCanRetryOffByOne(j) == j.RetryCount <= maxDownloadRetries

\* Job.RetryOrFail: whether the job is retried
CanRetry(j) == j.RetryCount < maxDownloadRetries

\* Job.RetryOrFail(meta): the job as it is saved
RetryOrFail(j, meta) ==
    IF CanRetry(j)
    THEN QueuePendingDownload([j EXCEPT !.RetryCount = @ + 1])
    ELSE SetState(j, StateFailed, <<meta>>)

\* the outcomes an attempt on the job j can have.  For Job{} the file
\* Perform creates, saveDir + j.ID, is the directory saveDir itself, and
\* os.Create of a directory fails.
DirectoryOutcome ==
    [kind |-> "createErr", cause |-> "file", err |-> "is a directory",
     text |-> << >>, code |-> 0]
AttemptOutcomes(j) == IF j.ID = ZeroJob.ID THEN {DirectoryOutcome} ELSE Outcomes(j.URL)

\* the job as Perform saves it after the outcome o
PerformJob(j, o) ==
    LET r == PerformRoute(o)
    IN  IF r.route = "retry" THEN RetryOrFail(j, r.meta)
        ELSE IF r.route = "fail" THEN SetState(j, StateFailed, <<r.meta>>)
        ELSE SetState(j, StateSuccess, << >>)

\* where Perform goes after that Save (ok: the Save succeeded):
\* "requeue" is the RPUSH of QueuePendingDownload, "cbsave" the call of
\* QueuePendingCallback, "idle" the return
PerformNext(j, o, ok) ==
    LET r == PerformRoute(o)
    IN  IF r.route = "retry"
        THEN IF ~ok THEN "idle"
             ELSE IF CanRetry(j) THEN "requeue" ELSE "cbsave"
        ELSE IF r.route = "fail" THEN "idle"
        ELSE IF ok THEN "cbsave" ELSE "idle"

(***************************************************************************)
(* The system: the Store, the ingestion endpoint, the aggregation worker   *)
(* pools of the Processor, the Notifier.  Every step is one Redis command  *)
(* (or one attempt, up to the command that saves its result), so that the  *)
(* commands of different callers interleave as Redis serves them.          *)
(***************************************************************************)
\* the aggregations of the model and their limits (aggr_limit)
Aggrs == {"a1", "a2"}
Limit == [a \in Aggrs |-> IF a = "a1" THEN 1 ELSE 2]

\* job ids, assigned in order by the ingestion endpoint
JobID(n) == "j" \o Concat(Itoa(n))
JobIDs == {JobID(n) : n \in 1..MaxJobs}

\* the keys of the job records: the ids of the jobs, and the ID of Job{},
\* under which a worker that was handed Job{} saves it
StoreKeys == JobIDs \cup {ZeroJob.ID}

\* the lists: one per aggregation, the one Job{} is requeued on, and the
\* callback list
Keys == {RedisJobsKey(a) : a \in Aggrs \cup {ZeroJob.AggrID}} \cup {callbackQueue}

\* mutant: every pool has one worker more than the limit
MutWorkersOneMore == UNION {{<<a, i>> : i \in 1..(Limit[a] + 1)} : a \in Aggrs}
\* one pool of Limit[a] workers per aggregation a (spec 4.4)
Workers == UNION {{<<a, i>> : i \in 1..Limit[a]} : a \in Aggrs}

\* The fields of the Job struct.  The struct is declared outside storage.go:
\* the switch of jobFromMap names ten fields, the record layout (spec 3, 6)
\* has UserAgent as well; toMap writes whatever fields the struct has.
JobStructs == {JobFields, JobFields \cup {"UserAgent"}}

VARIABLES
    store,    \* Redis hashes: job id -> the hash of the job record
    lists,    \* Redis lists: key -> sequence of job ids
    wk,       \* aggregation workers: [pc, j (the job in memory), wfail]
    nt,       \* the Notifier worker: [pc, j]
    nextId,   \* number of jobs submitted so far
    faults,   \* number of Store failures and crashes so far
    hist,     \* history per job: [att |-> attempts started,
              \*                   retr |-> attempts that ended in RetryOrFail]
    api,      \* the last Store call made directly (Save/GetJob, pops)
    sub,      \* submissions in flight: the jobs saved and not yet pushed
    fields    \* the fields of the Job struct of this build

vars == <<store, lists, wk, nt, nextId, faults, hist, api, sub, fields>>

IdleWorker == [pc |-> "idle", j |-> ZeroJob, wfail |-> FALSE]
IdleNotifier == [pc |-> "idle", j |-> ZeroJob]
NoCall == [op |-> "none"]

EmptyStore == [id \in StoreKeys |-> EmptyMap]
EmptyLists == [k \in Keys |-> << >>]
NoHist == [id \in StoreKeys |-> [att |-> 0, retr |-> 0]]

Init ==
    /\ store = EmptyStore
    /\ lists = EmptyLists
    /\ wk = [w \in Workers |-> IdleWorker]
    /\ nt = IdleNotifier
    /\ nextId = 0
    /\ faults = 0
    /\ hist = NoHist
    /\ api = NoCall
    /\ sub = { }
    /\ fields \in JobStructs

\* the outcomes of a Store command: it may fail while the fault budget lasts
Oks == IF faults < MaxFaults THEN {TRUE, FALSE} ELSE {TRUE}
Fault(ok) == faults' = IF ok THEN faults ELSE faults + 1

\* the job the ingestion endpoint builds from a valid submission, a struct
\* with the fields fs
NewJob(id, a, fs) ==
    [f \in fs |->
        IF f = "ID" THEN id
        ELSE IF f = "URL" THEN StrHttpFoobarCom
        ELSE IF f = "AggrID" THEN a
        ELSE IF f = "CallbackURL" THEN "http://foo.bar"
        ELSE IF f = "Extra" THEN "whatever"
        ELSE IF f = "CallbackState" THEN StatePending
        ELSE IF f \in IntFields THEN 0
        ELSE ""]

\* a job that jobFromMap returned, as the struct of this build: the fields
\* the switch does not know keep their zero value
AsStruct(j) == [f \in fields |-> IF f \in DOMAIN j THEN j[f] ELSE ""]

\* Ingestion, Job.QueuePendingDownload lines 209-213 on a new job:
\* DownloadState = Pending and Save; a failed Save returns.
SubmitSave(a, oks) ==
    /\ nextId < MaxJobs
    /\ \E ok \in oks :
        LET j == QueuePendingDownload(NewJob(JobID(nextId + 1), a, fields))
        IN  /\ store' = IF ok THEN Save(store, j) ELSE store
            /\ sub' = IF ok THEN sub \cup {j} ELSE sub
            /\ Fault(ok)
    /\ nextId' = nextId + 1
    /\ UNCHANGED <<lists, wk, nt, hist, api, fields>>

\* Ingestion, Job.QueuePendingDownload line 214: RPUSH to the list of the
\* job's aggregation, then return.
SubmitPush(oks) ==
    /\ \E j \in sub, ok \in oks :
        /\ lists' = IF ok THEN RPush(lists, PendingDownloadKey(j), j.ID) ELSE lists
        /\ sub' = sub \ {j}
        /\ Fault(ok)
    /\ UNCHANGED <<store, wk, nt, nextId, hist, api, fields>>

\* Worker loop, Aggregation.PopJob lines 333-340 on the worker's own
\* aggregation: the LPOP.  After an error or an empty list the worker tries
\* again.
WPop(w, oks) ==
    /\ wk[w].pc = "idle"
    /\ \E popOk \in oks :
        LET h == PopHead(lists, RedisJobsKey(w[1]), popOk)
        IN  /\ lists' = h.lists
            /\ wk' = [wk EXCEPT ![w] =
                        IF h.err = nil
                        THEN [pc |-> "popped", j |-> Popped(h.id), wfail |-> FALSE]
                        ELSE IdleWorker]
            /\ Fault(popOk)
    /\ UNCHANGED <<store, nt, nextId, hist, api, sub, fields>>

\* Worker loop, Aggregation.PopJob line 341: return GetJob(cmd.Val()), the
\* HGETALL.  The worker performs the job it gets; after an error it drops
\* what it got and tries the next pop.
WGet(w, oks) ==
    /\ wk[w].pc = "popped"
    /\ \E getOk \in oks :
        /\ \E r \in GetJob(store, wk[w].j.ID, getOk) :
            wk' = [wk EXCEPT ![w] =
                    IF r.err = nil
                    THEN [pc |-> "perform", j |-> AsStruct(r.j), wfail |-> FALSE]
                    ELSE IdleWorker]
        /\ Fault(getOk)
    /\ UNCHANGED <<store, lists, nt, nextId, hist, api, sub, fields>>

\* Perform line 143: SetState(StateInProgress); its error is dropped.
WStart(w, oks) ==
    /\ wk[w].pc = "perform"
    /\ \E ok \in oks :
        LET j == SetState(wk[w].j, StateInProgress, << >>)
        IN  /\ store' = IF ok THEN Save(store, j) ELSE store
            /\ wk' = [wk EXCEPT ![w] = [pc |-> "download", j |-> j, wfail |-> ~ok]]
            /\ Fault(ok)
    /\ hist' = [hist EXCEPT ![wk[w].j.ID].att = @ + 1]
    /\ UNCHANGED <<lists, nt, nextId, api, sub, fields>>

\* Perform lines 144-189: the attempt ends with outcome o, and the job is
\* saved as RetryOrFail or SetState leave it.
WDownload(w, oks) ==
    /\ wk[w].pc = "download"
    /\ \E o \in AttemptOutcomes(wk[w].j), ok \in oks :
        LET j == PerformJob(wk[w].j, o)
            next == PerformNext(wk[w].j, o, ok)
        IN  /\ store' = IF ok THEN Save(store, j) ELSE store
            /\ wk' = [wk EXCEPT ![w] =
                        IF next = "idle" THEN IdleWorker
                        ELSE [pc |-> next, j |-> j, wfail |-> wk[w].wfail \/ ~ok]]
            /\ Fault(ok)
            /\ hist' = [hist EXCEPT ![wk[w].j.ID].retr =
                            IF PerformRoute(o).route = "retry" THEN @ + 1 ELSE @]
    /\ UNCHANGED <<lists, nt, nextId, api, sub, fields>>

\* QueuePendingDownload line 214: RPUSH of the retried job, then return.
WRequeue(w, oks) ==
    /\ wk[w].pc = "requeue"
    /\ \E ok \in oks :
        /\ lists' = IF ok THEN RPush(lists, PendingDownloadKey(wk[w].j), wk[w].j.ID)
                    ELSE lists
        /\ Fault(ok)
    /\ wk' = [wk EXCEPT ![w] = IdleWorker]
    /\ UNCHANGED <<store, nt, nextId, hist, api, sub, fields>>

\* QueuePendingCallback lines 220-224: CallbackState = Pending, Save.
WCbSave(w, oks) ==
    /\ wk[w].pc = "cbsave"
    /\ \E ok \in oks :
        LET j == QueuePendingCallback(wk[w].j)
        IN  /\ store' = IF ok THEN Save(store, j) ELSE store
            /\ wk' = [wk EXCEPT ![w] =
                        IF ok THEN [pc |-> "cbpush", j |-> j, wfail |-> wk[w].wfail]
                        ELSE IdleWorker]
            /\ Fault(ok)
    /\ UNCHANGED <<lists, nt, nextId, hist, api, sub, fields>>

\* QueuePendingCallback line 225: RPUSH to the callback list, then return.
WCbPush(w, oks) ==
    /\ wk[w].pc = "cbpush"
    /\ \E ok \in oks :
        /\ lists' = IF ok THEN RPush(lists, PendingCallbackKey(wk[w].j), wk[w].j.ID)
                    ELSE lists
        /\ Fault(ok)
    /\ wk' = [wk EXCEPT ![w] = IdleWorker]
    /\ UNCHANGED <<store, nt, nextId, hist, api, sub, fields>>

(***************************************************************************)
(* The Notifier (spec 4.5), on the primitives of storage.go.               *)
(***************************************************************************)
CallbackResults == {"2xx", "4xx", "retriable"}

\* the job as the Notifier saves it after the callback POST answered res
NotifyJob(j, res) ==
    IF callbackInfo(j).err # nil
    THEN SetCallbackState(j, StateFailed, <<callbackInfo(j).err>>)
    ELSE IF res = "2xx" THEN SetCallbackState(j, StateSuccess, << >>)
    ELSE IF res = "4xx"
    THEN SetCallbackState(j, StateFailed, <<"Received status code 4xx">>)
    ELSE IF j.CallbackCount < maxCallbackRetries THEN QueuePendingCallback(j)
    ELSE SetCallbackState(j, StateFailed, <<"Callback failed">>)

\* whether the Notifier puts the job back on the callback list
NotifyRequeues(j, res) ==
    /\ callbackInfo(j).err = nil
    /\ res = "retriable"
    /\ j.CallbackCount < maxCallbackRetries

\* step 1, PopCallback lines 266-273: the LPOP
NPop(oks) ==
    /\ nt.pc = "idle"
    /\ \E popOk \in oks :
        LET h == PopHead(lists, callbackQueue, popOk)
        IN  /\ lists' = h.lists
            /\ nt' = IF h.err = nil THEN [pc |-> "popped", j |-> Popped(h.id)]
                     ELSE IdleNotifier
            /\ Fault(popOk)
    /\ UNCHANGED <<store, wk, nextId, hist, api, sub, fields>>

\* step 1, PopCallback line 274: return GetJob(cmd.Val()), the HGETALL
NGet(oks) ==
    /\ nt.pc = "popped"
    /\ \E getOk \in oks :
        /\ \E r \in GetJob(store, nt.j.ID, getOk) :
            nt' = IF r.err = nil THEN [pc |-> "notify", j |-> AsStruct(r.j)]
                  ELSE IdleNotifier
        /\ Fault(getOk)
    /\ UNCHANGED <<store, lists, wk, nextId, hist, api, sub, fields>>

\* step 2: CallbackState = InProgress, CallbackCount + 1, persist
NStart(oks) ==
    /\ nt.pc = "notify"
    /\ \E ok \in oks :
        LET j == SetCallbackState([nt.j EXCEPT !.CallbackCount = @ + 1],
                                  StateInProgress, << >>)
        IN  /\ store' = IF ok THEN Save(store, j) ELSE store
            /\ nt' = [pc |-> "post", j |-> j]
            /\ Fault(ok)
    /\ UNCHANGED <<lists, wk, nextId, hist, api, sub, fields>>

\* steps 3 and 4: POST the envelope, classify the response, persist
NPost(oks) ==
    /\ nt.pc = "post"
    /\ \E res \in CallbackResults, ok \in oks :
        LET j == NotifyJob(nt.j, res)
        IN  /\ store' = IF ok THEN Save(store, j) ELSE store
            /\ nt' = IF ok /\ NotifyRequeues(nt.j, res)
                     THEN [pc |-> "requeue", j |-> j]
                     ELSE IdleNotifier
            /\ Fault(ok)
    /\ UNCHANGED <<lists, wk, nextId, hist, api, sub, fields>>

\* the RPUSH of QueuePendingCallback for a callback that is retried
NRequeue(oks) ==
    /\ nt.pc = "requeue"
    /\ \E ok \in oks :
        /\ lists' = IF ok THEN RPush(lists, PendingCallbackKey(nt.j), nt.j.ID)
                    ELSE lists
        /\ Fault(ok)
    /\ nt' = IdleNotifier
    /\ UNCHANGED <<store, wk, nextId, hist, api, sub, fields>>

(***************************************************************************)
(* Crashes.  The ingestion endpoint, the Processor with its pools and the  *)
(* Notifier are processes of their own; one that dies loses what it held   *)
(* in memory, between any two of its commands, and starts again idle.      *)
(***************************************************************************)
CrashAPI ==
    /\ faults < MaxFaults
    /\ sub # { }
    /\ sub' = { }
    /\ faults' = faults + 1
    /\ UNCHANGED <<store, lists, wk, nt, nextId, hist, api, fields>>

CrashProcessor ==
    /\ faults < MaxFaults
    /\ \E w \in Workers : wk[w].pc # "idle"
    /\ wk' = [w \in Workers |-> IdleWorker]
    /\ faults' = faults + 1
    /\ UNCHANGED <<store, lists, nt, nextId, hist, api, sub, fields>>

CrashNotifier ==
    /\ faults < MaxFaults
    /\ nt.pc # "idle"
    /\ nt' = IdleNotifier
    /\ faults' = faults + 1
    /\ UNCHANGED <<store, lists, wk, nextId, hist, api, sub, fields>>

Next ==
    \/ \E a \in Aggrs : SubmitSave(a, Oks)
    \/ SubmitPush(Oks)
    \/ \E w \in Workers : WPop(w, Oks)
    \/ \E w \in Workers : WGet(w, Oks)
    \/ \E w \in Workers : WStart(w, Oks)
    \/ \E w \in Workers : WDownload(w, Oks)
    \/ \E w \in Workers : WRequeue(w, Oks)
    \/ \E w \in Workers : WCbSave(w, Oks)
    \/ \E w \in Workers : WCbPush(w, Oks)
    \/ NPop(Oks)
    \/ NGet(Oks)
    \/ NStart(Oks)
    \/ NPost(Oks)
    \/ NRequeue(Oks)
    \/ CrashAPI
    \/ CrashProcessor
    \/ CrashNotifier

Spec == Init /\ [][Next]_vars

(***************************************************************************)
(* The system under fair scheduling: the ingestion endpoint and every      *)
(* worker goroutine keep running, so a command that is due and reaches     *)
(* Redis is issued in the end.  Commands may still fail and processes may  *)
(* still crash, as in Spec.                                                *)
(***************************************************************************)
\* a command that reaches Redis
NoFault == {TRUE}

WorkerStep(w) ==
    \/ WPop(w, NoFault)
    \/ WGet(w, NoFault)
    \/ WStart(w, NoFault)
    \/ WDownload(w, NoFault)
    \/ WRequeue(w, NoFault)
    \/ WCbSave(w, NoFault)
    \/ WCbPush(w, NoFault)

LiveSpec ==
    /\ Init
    /\ [][Next]_vars
    /\ WF_vars(SubmitPush(NoFault))
    /\ \A w \in Workers : WF_vars(WorkerStep(w))

(***************************************************************************)
(* Save followed by GetJob, applied to one job record.                     *)
(***************************************************************************)
\* Job values as storage.go handles them
RTJobs ==
    {[ID |-> id, URL |-> StrHttpFoobarCom, AggrID |-> "a1",
      DownloadState |-> ds, RetryCount |-> rc, Meta |-> m,
      CallbackURL |-> "http://foo.bar", CallbackCount |-> cc,
      CallbackState |-> StatePending, Extra |-> "whatever"] :
        id \in JobIDs, ds \in {StatePending, StateFailed},
        rc \in {-1, 0, 3, 10}, m \in {"", "e\nf"}, cc \in {0, 12}}

\* Job values with the UserAgent field of the record layout (spec 6)
RTJobsUA == {j @@ ("UserAgent" :> ua) : j \in RTJobs, ua \in {"", "curl"}}

\* every job id already has a record, as after earlier submissions
FullStore ==
    [id \in StoreKeys |->
        IF id \in JobIDs THEN toMap(QueuePendingDownload(NewJob(id, "a1", JobFields)))
        ELSE EmptyMap]

InitRT ==
    /\ store \in {EmptyStore, FullStore}
    /\ lists = EmptyLists
    /\ wk = [w \in Workers |-> IdleWorker]
    /\ nt = IdleNotifier
    /\ nextId = 0
    /\ faults = 0
    /\ hist = NoHist
    /\ sub = { }
    /\ fields = JobFields
    /\ api \in {[op |-> "input", in |-> j] : j \in RTJobs \cup RTJobsUA}

\* err := j.Save(); redisOk: whether the HMSET command reached Redis
CallSave ==
    /\ api.op = "input"
    /\ \E redisOk \in BOOLEAN :
        /\ store' = IF redisOk THEN Save(store, api.in) ELSE store
        /\ api' = [op |-> "Save", in |-> api.in,
                   err |-> IF redisOk THEN nil ELSE "i/o timeout"]
    /\ UNCHANGED <<lists, wk, nt, nextId, faults, hist, sub, fields>>

\* out, err := GetJob(j.ID), after the Save returned without error
CallGetSaved ==
    /\ api.op = "Save"
    /\ api.err = nil
    /\ \E redisOk \in BOOLEAN :
        \E r \in GetJob(store, api.in.ID, redisOk) :
            api' = [op |-> "GetJob", in |-> api.in, redisOk |-> redisOk,
                    out |-> r.j, err |-> r.err]
    /\ UNCHANGED <<store, lists, wk, nt, nextId, faults, hist, sub, fields>>

NextRT ==
    \/ CallSave
    \/ CallGetSaved

SpecRT == InitRT /\ [][NextRT]_vars

(***************************************************************************)
(* Aggregation.PopJob and PopCallback, applied to lists in any state the   *)
(* system leaves them in, by workers and the Notifier: a call is the LPOP  *)
(* step and, when that gave an id, the step of return GetJob(cmd.Val());   *)
(* the calls of different callers interleave.                              *)
(***************************************************************************)
\* where a queued job's id is: in its aggregation's list while its download
\* is pending, in the callback list once the download is over
Places == {RedisJobsKey(a) : a \in Aggrs} \cup {callbackQueue, "none"}

PopRecord(id, place) ==
    IF place = callbackQueue
    THEN toMap(QueuePendingCallback(
            SetState(NewJob(id, "a1", JobFields), StateSuccess, << >>)))
    ELSE toMap(QueuePendingDownload(
            NewJob(id, CHOOSE a \in Aggrs : place \in {RedisJobsKey(a), "none"},
                   JobFields)))

\* the orders in which the ids placed on list k can stand on it
Orders(place, k) ==
    LET ids == {id \in JobIDs : place[id] = k}
    IN  {q \in UNION {[1..n -> ids] : n \in {Cardinality(ids)}} :
            \A x, y \in DOMAIN q : x # y => q[x] # q[y]}

InitPop ==
    /\ \E place \in [JobIDs -> Places] :
        /\ store = [id \in JobIDs |-> PopRecord(id, place[id])]
        /\ lists \in {ls \in [Keys -> UNION {Orders(place, k) : k \in Keys}] :
                        \A k \in Keys : ls[k] \in Orders(place, k)}
    /\ wk = [w \in Workers |-> IdleWorker]
    /\ nt = IdleNotifier
    /\ nextId = 0
    /\ faults = 0
    /\ hist = NoHist
    /\ sub = { }
    /\ fields = JobFields
    /\ api = NoCall

\* what a pop hands to its caller; got: the LPOP gave an id, and the HGETALL
\* of GetJob was issued for it
PopResult(key, popOk, got, getOk, id, j, err) ==
    [op |-> "pop", key |-> key, popOk |-> popOk, got |-> got, getOk |-> getOk,
     id |-> id, j |-> j, err |-> err]

\* Aggregation.PopJob up to line 340, called by a worker of the aggregation:
\* the LPOP; the call returns here unless the LPOP gave an id.
\* popOk: whether the command reached Redis
CallPopJob(a) ==
    /\ \E w \in Workers, popOk \in BOOLEAN :
        /\ w[1] = a /\ wk[w].pc = "idle"
        /\ LET h == PopHead(lists, RedisJobsKey(a), popOk)
           IN  /\ lists' = h.lists
               /\ wk' = IF h.err # nil THEN wk
                        ELSE [wk EXCEPT ![w] = [pc |-> "popped", j |-> Popped(h.id),
                                                wfail |-> FALSE]]
               /\ api' = IF h.err # nil
                         THEN PopResult(RedisJobsKey(a), popOk, FALSE, TRUE, "",
                                        ZeroJob, h.err)
                         ELSE [op |-> "LPOP", key |-> RedisJobsKey(a), id |-> h.id]
    /\ UNCHANGED <<store, nt, nextId, faults, hist, sub, fields>>

\* Aggregation.PopJob line 341: return GetJob(cmd.Val()).
\* getOk: whether the HGETALL reached Redis
ReturnPopJob(a) ==
    /\ \E w \in Workers, getOk \in BOOLEAN :
        /\ w[1] = a /\ wk[w].pc = "popped"
        /\ \E r \in GetJob(store, wk[w].j.ID, getOk) :
            api' = PopResult(RedisJobsKey(a), TRUE, TRUE, getOk, wk[w].j.ID,
                             r.j, r.err)
        /\ wk' = [wk EXCEPT ![w] = IdleWorker]
    /\ UNCHANGED <<store, lists, nt, nextId, faults, hist, sub, fields>>

\* PopCallback up to line 273, called by the Notifier: the LPOP
CallPopCallback ==
    /\ nt.pc = "idle"
    /\ \E popOk \in BOOLEAN :
        LET h == PopHead(lists, callbackQueue, popOk)
        IN  /\ lists' = h.lists
            /\ nt' = IF h.err # nil THEN nt ELSE [pc |-> "popped", j |-> Popped(h.id)]
            /\ api' = IF h.err # nil
                      THEN PopResult(callbackQueue, popOk, FALSE, TRUE, "",
                                     ZeroJob, h.err)
                      ELSE [op |-> "LPOP", key |-> callbackQueue, id |-> h.id]
    /\ UNCHANGED <<store, wk, nextId, faults, hist, sub, fields>>

\* PopCallback line 274: return GetJob(cmd.Val())
ReturnPopCallback ==
    /\ nt.pc = "popped"
    /\ \E getOk \in BOOLEAN :
        \E r \in GetJob(store, nt.j.ID, getOk) :
            api' = PopResult(callbackQueue, TRUE, TRUE, getOk, nt.j.ID, r.j, r.err)
    /\ nt' = IdleNotifier
    /\ UNCHANGED <<store, lists, wk, nextId, faults, hist, sub, fields>>

NextPop ==
    \/ \E a \in Aggrs : CallPopJob(a)
    \/ \E a \in Aggrs : ReturnPopJob(a)
    \/ CallPopCallback
    \/ ReturnPopCallback

SpecPop == InitPop /\ [][NextPop]_vars

(***************************************************************************)
(* Aggregation records: the hash "aggr:<id>" next to the list "jobs:<id>", *)
(* in the one keyspace of Redis; Aggregation.Save, Remove and PopJob       *)
(* applied to it.                                                          *)
(***************************************************************************)
\* Aggregation.RedisKey
RedisKey(aggrID) == aggrKeyPrefix \o aggrID
AggrKeys == {RedisKey(a) : a \in Aggrs}

\* DEL key: the key loses its value, a hash or a list
Del(st, ls, key) ==
    [store |-> IF key \in DOMAIN st THEN [st EXCEPT ![key] = EmptyMap] ELSE st,
     lists |-> IF key \in DOMAIN ls THEN [ls EXCEPT ![key] = << >>] ELSE ls]

\* mutant: the key deleted is the one of the jobs list
MutRemoveJobsKey(st, ls, aggrID) == Del(st, ls, RedisJobsKey(aggrID))

\* Aggregation.Remove
Remove(st, ls, aggrID) == Del(st, ls, RedisKey(aggrID))

\* Aggregation.Save: HSET aggr:<id> Limit <limit>
AggregationSave(st, aggrID, limit) ==
    [st EXCEPT ![RedisKey(aggrID)] = HMSet(@, [Limit |-> Itoa(limit)])]

\* Aggregation.Exists
AggregationExists(st, aggrID) == st[RedisKey(aggrID)] # EmptyMap

\* every aggregation has its record, as after the submission of its jobs;
\* the job records and the lists are in any state the system leaves them in
InitAggr ==
    /\ \E place \in [JobIDs -> Places] :
        /\ store = [k \in JobIDs \cup AggrKeys |->
                        IF k \in JobIDs THEN PopRecord(k, place[k])
                        ELSE [Limit |-> Itoa(Limit[CHOOSE a \in Aggrs : RedisKey(a) = k])]]
        /\ lists \in {ls \in [Keys -> UNION {Orders(place, k) : k \in Keys}] :
                        \A k \in Keys : ls[k] \in Orders(place, k)}
    /\ wk = [w \in Workers |-> IdleWorker]
    /\ nt = IdleNotifier
    /\ nextId = 0
    /\ faults = 0
    /\ hist = NoHist
    /\ sub = { }
    /\ fields = JobFields
    /\ api = NoCall

\* redisOk: whether the command reached Redis
CallRemove(a) ==
    /\ \E redisOk \in BOOLEAN :
        LET r == Remove(store, lists, a)
        IN  /\ store' = IF redisOk THEN r.store ELSE store
            /\ lists' = IF redisOk THEN r.lists ELSE lists
            /\ api' = [op |-> "Remove", aggr |-> a,
                       err |-> IF redisOk THEN nil ELSE "i/o timeout"]
    /\ UNCHANGED <<wk, nt, nextId, faults, hist, sub, fields>>

CallAggregationSave(a) ==
    /\ \E redisOk \in BOOLEAN :
        /\ store' = IF redisOk THEN AggregationSave(store, a, Limit[a]) ELSE store
        /\ api' = [op |-> "AggregationSave", aggr |-> a,
                   err |-> IF redisOk THEN nil ELSE "i/o timeout"]
    /\ UNCHANGED <<lists, wk, nt, nextId, faults, hist, sub, fields>>

NextAggr ==
    \/ \E a \in Aggrs : CallRemove(a)
    \/ \E a \in Aggrs : CallAggregationSave(a)
    \/ \E a \in Aggrs : CallPopJob(a)
    \/ \E a \in Aggrs : ReturnPopJob(a)

SpecAggr == InitAggr /\ [][NextAggr]_vars

(***************************************************************************)
(* Submissions (src/job/aggregation.go).  A JSON text that parses is the   *)
(* map json.Unmarshal builds from it: member name -> value, a value being  *)
(* a string (the sequence of its characters), a number, or null.           *)
(***************************************************************************)
defaultTimeout == 10

JSONString(chars) == [t |-> "string", v |-> chars]
JSONNumber(n) == [t |-> "number", v |-> n]
JSONNull == [t |-> "null", v |-> 0]

\* v, ok := tmp[key].(string) and v, ok := tmp[key].(float64)
IsString(obj, key) == key \in DOMAIN obj /\ obj[key].t = "string"
IsFloat64(obj, key) == key \in DOMAIN obj /\ obj[key].t = "number"

\* 'a' <= c && c <= 'z' || 'A' <= c && c <= 'Z'
Letters == {"a", "b", "c", "d", "e", "f", "g", "h", "i", "j", "k", "l", "m",
            "n", "o", "p", "q", "r", "s", "t", "u", "v", "w", "x", "y", "z",
            "A", "B", "C", "D", "E", "F", "G", "H", "I", "J", "K", "L", "M",
            "N", "O", "P", "Q", "R", "S", "T", "U", "V", "W", "X", "Y", "Z"}

\* net/url getScheme on the characters of rawURL, from position i on:
\* [err |-> a colon comes first, n |-> length of the scheme (0: no scheme)]
RECURSIVE getScheme(_, _)
getScheme(rawURL, i) ==
    IF i > Len(rawURL) THEN [err |-> FALSE, n |-> 0]
    ELSE IF rawURL[i] \in Letters THEN getScheme(rawURL, i + 1)
    ELSE IF IsDigit(rawURL[i]) \/ rawURL[i] \in {"+", "-", "."}
    THEN IF i = 1 THEN [err |-> FALSE, n |-> 0] ELSE getScheme(rawURL, i + 1)
    ELSE IF rawURL[i] = ":"
    THEN IF i = 1 THEN [err |-> TRUE, n |-> 0] ELSE [err |-> FALSE, n |-> i - 1]
    ELSE [err |-> FALSE, n |-> 0]

\* strings.Cut(s, c): the part of s before the first c, s when there is none
Before(s, c) ==
    IF \E k \in 1..Len(s) : s[k] = c
    THEN SubSeq(s, 1, (CHOOSE k \in 1..Len(s) :
                        s[k] = c /\ \A m \in 1..(k - 1) : s[m] # c) - 1)
    ELSE s

\* net/url validOptionalPort: nothing, or a colon and digits
validOptionalPort(port) ==
    port = << >> \/ (Head(port) = ":" /\ \A k \in 2..Len(port) : IsDigit(port[k]))

\* the characters net/url shouldEscape leaves alone in a host
HostChars ==
    Letters \cup {Digits[k] : k \in DOMAIN Digits} \cup
    {"!", "$", "&", "'", "(", ")", "*", "+", ",", ";", "=", ":", "[", "]",
     "<", ">", "\"", "-", "_", ".", "~"}

\* net/url parseHost returns no error: what follows the last colon is a
\* port, and no character of the host has to be escaped
parseHost(host) ==
    LET colons == {k \in 1..Len(host) : host[k] = ":"}
        i == CHOOSE k \in colons : \A m \in colons : m <= k
    IN  /\ colons # {} => validOptionalPort(SubSeq(host, i, Len(host)))
        /\ \A k \in 1..Len(host) : host[k] \in HostChars

\* url.ParseRequestURI(rawURL) returns no error, for rawURL of printable
\* ASCII characters other than % @ [ (no escapes, user info or IPv6
\* literal): an absolute URI or an absolute path
ParseRequestURI(rawURL) ==
    IF rawURL = << >> THEN FALSE                 \* "empty url"
    ELSE IF rawURL = <<"*">> THEN TRUE
    ELSE LET sch == getScheme(rawURL, 1)
             rest == Before(SubSeq(rawURL, IF sch.n > 0 THEN sch.n + 2 ELSE 1,
                                   Len(rawURL)), "?")
             authority == Before(SubSeq(rest, 3, Len(rest)), "/")
         IN  IF sch.err THEN FALSE               \* "missing protocol scheme"
             ELSE IF rest = << >> \/ Head(rest) # "/"
             THEN sch.n > 0                      \* opaque, or "invalid URI for request"
             ELSE IF sch.n > 0 /\ Len(rest) >= 2 /\ rest[2] = "/"
             THEN parseHost(authority)           \* "invalid port", "invalid host"
             ELSE TRUE

\* new(Aggregation)
ZeroAggregation == [ID |-> << >>, Limit |-> 0, Proxy |-> << >>, Timeout |-> 0]

\* Aggregation.UnmarshalJSON on in = [ok |-> the text is JSON, obj |-> its map]:
\* [err |-> nil or the error, a |-> the aggregation afterwards]
AggregationUnmarshalJSON(in) ==
    LET tmp == in.obj
        Reject(e) == [err |-> e, a |-> ZeroAggregation]
        limit == tmp["aggr_limit"].v                       \* int(limitf)
        proxy == IF IsString(tmp, "aggr_proxy") THEN tmp["aggr_proxy"].v ELSE << >>
        \* line 84: the timeout that is assigned to a.Timeout; the one of
        \* line 93 is another variable, local to the else block
        timeout == IF "aggr_timeout" \notin DOMAIN tmp THEN defaultTimeout ELSE 0
    IN  IF ~in.ok THEN Reject("unexpected end of JSON input")
        ELSE IF ~IsString(tmp, "aggr_id") THEN Reject("Aggregation ID must be a string")
        ELSE IF tmp["aggr_id"].v = << >> THEN Reject("Aggregation ID cannot be empty")
        ELSE IF ~IsFloat64(tmp, "aggr_limit")
        THEN Reject("Aggregation limit must be a number")
        ELSE IF limit <= 0 THEN Reject("Aggregation limit must be greater than 0")
        ELSE IF IsString(tmp, "aggr_proxy") /\ proxy # << >> /\ ~ParseRequestURI(proxy)
        THEN Reject("Aggregation proxy must be valid")
        ELSE IF "aggr_timeout" \in DOMAIN tmp /\ ~IsFloat64(tmp, "aggr_timeout")
        THEN Reject("Aggregation timeout must be a number")
        ELSE IF "aggr_timeout" \in DOMAIN tmp /\ tmp["aggr_timeout"].v <= 0
        THEN Reject("Aggregation timeout must be greater than 0")
        ELSE [err |-> nil,
              a |-> [ID |-> tmp["aggr_id"].v, Limit |-> limit,
                     Proxy |-> proxy, Timeout |-> timeout]]

\* the strings of the submissions below
StrFoo == <<"f", "o", "o">>
StrHttpFooBar == <<"h", "t", "t", "p", ":", "/", "/", "f", "o", "o", ".", "b", "a", "r">>
StrHttpsExampleOrg == <<"h", "t", "t", "p", "s", ":", "/", "/", "e", "x", "a", "m", "p", "l", "e", ".", "o", "r", "g">>
StrHTTPExampleOrg == <<"H", "T", "T", "P", ":", "/", "/", "e", "x", "a", "m", "p", "l", "e", ".", "o", "r", "g">>
StrExample == <<"e", "x", "a", "m", "p", "l", "e">>
StrSlashFoo == <<"/", "f", "o", "o">>
Str4 == <<"4">>

\* a member that the submission does not have
Absent == [t |-> "absent", v |-> 0]

\* the JSON object with the members of m that are not Absent
Object(m) == [k \in {k \in DOMAIN m : m[k] # Absent} |-> m[k]]

\* submissions for Aggregation.UnmarshalJSON: the cases of
\* TestAggregationUnmarshal and their neighbours, and a text that is not JSON
AggregationInputs ==
    {[ok |-> TRUE,
      obj |-> Object([aggr_id |-> id, aggr_limit |-> lim, aggr_proxy |-> px,
                      aggr_timeout |-> to, url |-> JSONString(StrHttpFoobarCom)])] :
        id \in {Absent, JSONString(StrFoo), JSONString(<< >>), JSONNumber(4)},
        lim \in {Absent, JSONNumber(4), JSONNumber(1), JSONNumber(0),
                 JSONNumber(-2), JSONString(Str4)},
        px \in {Absent, JSONNull, JSONString(<< >>), JSONString(StrHttpsExampleOrg),
                JSONString(StrHTTPExampleOrg), JSONString(StrExample),
                JSONString(StrSlashFoo)},
        to \in {Absent, JSONNull, JSONNumber(12), JSONNumber(1), JSONNumber(0),
                JSONNumber(-2), JSONString(Str4)}}
    \cup {[ok |-> FALSE, obj |-> << >>]}

InitAggrJSON ==
    /\ store = EmptyStore
    /\ lists = EmptyLists
    /\ wk = [w \in Workers |-> IdleWorker]
    /\ nt = IdleNotifier
    /\ nextId = 0
    /\ faults = 0
    /\ hist = NoHist
    /\ sub = { }
    /\ fields = JobFields
    /\ api \in {[op |-> "input", in |-> in] : in \in AggregationInputs}

\* aggr := new(Aggregation); err := aggr.UnmarshalJSON(data)
CallAggregationUnmarshalJSON ==
    /\ api.op = "input"
    /\ LET r == AggregationUnmarshalJSON(api.in)
       IN  api' = [op |-> "AggregationUnmarshalJSON", in |-> api.in,
                   err |-> r.err, a |-> r.a]
    /\ UNCHANGED <<store, lists, wk, nt, nextId, faults, hist, sub, fields>>

SpecAggrJSON == InitAggrJSON /\ [][CallAggregationUnmarshalJSON]_vars

(***************************************************************************)
(* Job submissions (spec 6; the cases of src/job/job_test.go).             *)
(***************************************************************************)
\* an absolute URL: a scheme (a letter, then letters, digits, + - .), a
\* colon, and the rest
IsAbsoluteURL(u) ==
    \E i \in 2..Len(u) :
        /\ u[i] = ":"
        /\ u[1] \in Letters
        /\ \A k \in 1..(i - 1) :
                u[k] \in Letters \/ IsDigit(u[k]) \/ u[k] \in {"+", "-", "."}

JSONTrue == [t |-> "bool", v |-> 1]
StrFijfij == <<"f", "i", "j", "f", "i", "j">>
StrWhatever == <<"w", "h", "a", "t", "e", "v", "e", "r">>
StrDownloaderTest == <<"D", "o", "w", "n", "l", "o", "a", "d", "e", "r", " ", "T", "e", "s", "t">>
StrBar == <<"b", "a", "r">>

\* mutant: a user_agent that is not a string is taken as the empty string
MutJobUnmarshalJSONAnyUserAgent(in) ==
    LET tmp == in.obj
        Str(key) == IF IsString(tmp, key) THEN tmp[key].v ELSE << >>
    IN  IF \/ ~in.ok
           \/ Str("aggr_id") = << >>
           \/ ~IsAbsoluteURL(Str("url"))
           \/ ~IsAbsoluteURL(Str("callback_url"))
        THEN [err |-> "invalid job", j |-> << >>]
        ELSE [err |-> nil,
              j |-> [AggrID |-> Str("aggr_id"), URL |-> Str("url"),
                     CallbackURL |-> Str("callback_url"), Extra |-> Str("extra"),
                     UserAgent |-> Str("user_agent")]]

\* Job.UnmarshalJSON on in = [ok |-> the text is JSON, obj |-> its map]:
\* [err |-> nil or the error, j |-> the submitted fields of the job]
JobUnmarshalJSON(in) ==
    LET tmp == in.obj
        Str(key) == IF IsString(tmp, key) THEN tmp[key].v ELSE << >>
    IN  IF \/ ~in.ok
           \/ Str("aggr_id") = << >>
           \/ ~IsAbsoluteURL(Str("url"))
           \/ ~IsAbsoluteURL(Str("callback_url"))
           \/ "user_agent" \in DOMAIN tmp /\ ~IsString(tmp, "user_agent")
        THEN [err |-> "invalid job", j |-> << >>]
        ELSE [err |-> nil,
              j |-> [AggrID |-> Str("aggr_id"), URL |-> Str("url"),
                     CallbackURL |-> Str("callback_url"), Extra |-> Str("extra"),
                     UserAgent |-> Str("user_agent")]]

\* submissions for Job.UnmarshalJSON: the cases of TestUnmarshalJSON and
\* their neighbours
JobInputs ==
    {[ok |-> TRUE,
      obj |-> Object([aggr_id |-> id, url |-> u, callback_url |-> cb,
                      extra |-> ex, user_agent |-> ua])] :
        id \in {Absent, JSONString(StrFoo), JSONString(<< >>), JSONTrue},
        u \in {Absent, JSONString(StrHttpFoobarCom), JSONString(StrFoo),
               JSONString(<< >>)},
        cb \in {Absent, JSONString(StrHttpFooBar), JSONString(StrFijfij)},
        ex \in {Absent, JSONString(<< >>), JSONString(StrWhatever)},
        ua \in {Absent, JSONString(StrDownloaderTest), JSONString(<< >>),
                JSONNull, JSONNumber(3)}}
    \cup {[ok |-> TRUE, obj |-> [foo |-> JSONString(StrBar)]]}
    \cup {[ok |-> FALSE, obj |-> << >>]}

InitJobJSON ==
    /\ store = EmptyStore
    /\ lists = EmptyLists
    /\ wk = [w \in Workers |-> IdleWorker]
    /\ nt = IdleNotifier
    /\ nextId = 0
    /\ faults = 0
    /\ hist = NoHist
    /\ sub = { }
    /\ fields = JobFields
    /\ api \in {[op |-> "input", in |-> in] : in \in JobInputs}

\* j := new(Job); err := j.UnmarshalJSON(data)
CallJobUnmarshalJSON ==
    /\ api.op = "input"
    /\ LET r == JobUnmarshalJSON(api.in)
       IN  api' = [op |-> "JobUnmarshalJSON", in |-> api.in, err |-> r.err, j |-> r.j]
    /\ UNCHANGED <<store, lists, wk, nt, nextId, faults, hist, sub, fields>>

SpecJobJSON == InitJobJSON /\ [][CallJobUnmarshalJSON]_vars

(***************************************************************************)
(* Job.callbackInfo applied to one job.                                    *)
(***************************************************************************)
\* jobs in every DownloadState, the zero value of State included
InfoJobs ==
    {[ID |-> id, URL |-> StrHttpFoobarCom, AggrID |-> "a1",
      DownloadState |-> ds, RetryCount |-> rc, Meta |-> m,
      CallbackURL |-> "http://foo.bar", CallbackCount |-> 0,
      CallbackState |-> cs, Extra |-> ex] :
        id \in JobIDs, ds \in States \cup {""}, rc \in {0, maxDownloadRetries},
        m \in {"", "Received Status Code 400"},
        cs \in {StatePending, StateInProgress}, ex \in {"", "whatever"}}

InitInfo ==
    /\ store = EmptyStore
    /\ lists = EmptyLists
    /\ wk = [w \in Workers |-> IdleWorker]
    /\ nt = IdleNotifier
    /\ nextId = 0
    /\ faults = 0
    /\ hist = NoHist
    /\ sub = { }
    /\ fields = JobFields
    /\ api \in {[op |-> "input", in |-> j] : j \in InfoJobs}

\* info, err := j.callbackInfo()
CallCallbackInfo ==
    /\ api.op = "input"
    /\ LET r == callbackInfo(api.in)
       IN  api' = [op |-> "callbackInfo", in |-> api.in, info |-> r.info, err |-> r.err]
    /\ UNCHANGED <<store, lists, wk, nt, nextId, faults, hist, sub, fields>>

SpecInfo == InitInfo /\ [][CallCallbackInfo]_vars

(***************************************************************************)
(* GetJob and the pops on a Store from which job records were deleted (the *)
(* records are never deleted by storage.go itself, but by whoever else     *)
(* writes to Redis: src/utils/remove_files_without_job tells of it).       *)
(***************************************************************************)
InitGet ==
    /\ \E place \in [JobIDs -> Places], deleted \in SUBSET JobIDs :
        /\ store = [id \in JobIDs |->
                        IF id \in deleted THEN EmptyMap ELSE PopRecord(id, place[id])]
        /\ lists \in {ls \in [Keys -> UNION {Orders(place, k) : k \in Keys}] :
                        \A k \in Keys : ls[k] \in Orders(place, k)}
    /\ wk = [w \in Workers |-> IdleWorker]
    /\ nt = IdleNotifier
    /\ nextId = 0
    /\ faults = 0
    /\ hist = NoHist
    /\ sub = { }
    /\ fields = JobFields
    /\ api = NoCall

\* j, err := GetJob(id); redisOk: whether the HGETALL command reached Redis
CallGetJob(id) ==
    /\ \E redisOk \in BOOLEAN :
        \E r \in GetJob(store, id, redisOk) :
            api' = [op |-> "GetJob", id |-> id, redisOk |-> redisOk,
                    j |-> r.j, err |-> r.err]
    /\ UNCHANGED <<store, lists, wk, nt, nextId, faults, hist, sub, fields>>

NextGet ==
    \/ \E id \in JobIDs : CallGetJob(id)
    \/ \E a \in Aggrs : CallPopJob(a)
    \/ \E a \in Aggrs : ReturnPopJob(a)
    \/ CallPopCallback
    \/ ReturnPopCallback

SpecGet == InitGet /\ [][NextGet]_vars

(***************************************************************************)
(* One call of Job.Perform on a job that a worker has popped, command by   *)
(* command, from its first line to its return; each command may fail to    *)
(* reach Redis.                                                            *)
(***************************************************************************)
\* the error of client.Do when ctx, the context the worker pool cancels at
\* shutdown, is cancelled during the request
ShutdownErrors == {o.err : o \in {o \in UNION {Outcomes(u) : u \in JobURLs} :
                                    o.cause = "canceled"}}

\* popped jobs: Pending, after any number of retries, Meta as earlier
\* writes of the record left it
PerformJobs ==
    {[NewJob(id, a, JobFields) EXCEPT !.URL = u, !.DownloadState = StatePending,
                                      !.RetryCount = rc, !.Meta = m] :
        id \in JobIDs, a \in Aggrs, u \in JobURLs, rc \in 0..maxDownloadRetries,
        m \in {"", "Received status code 500 Internal Server Error"}}

\* the call j.Perform(ctx, saveDir): pc is where it stands ("returned": it
\* is over), in the job as it was called, o the outcome its attempt has,
\* j the job in memory, failed whether a command of it has failed
InitPerform ==
    /\ \E j \in PerformJobs :
      \E o \in Outcomes(j.URL) :
        /\ store = Save(EmptyStore, j)
        /\ api = [op |-> "Perform", pc |-> "start", in |-> j, o |-> o,
                  j |-> j, failed |-> FALSE]
    /\ lists = EmptyLists
    /\ wk = [w \in Workers |-> IdleWorker]
    /\ nt = IdleNotifier
    /\ nextId = 0
    /\ faults = 0
    /\ hist = NoHist
    /\ sub = { }
    /\ fields = JobFields

\* line 143: j.SetState(StateInProgress); its error is dropped
PerformStart ==
    /\ api.op = "Perform" /\ api.pc = "start"
    /\ \E ok \in BOOLEAN :
        LET j == SetState(api.j, StateInProgress, << >>)
        IN  /\ store' = IF ok THEN Save(store, j) ELSE store
            /\ api' = [api EXCEPT !.pc = "download", !.j = j, !.failed = ~ok]
    /\ UNCHANGED <<lists, wk, nt, nextId, faults, hist, sub, fields>>

\* lines 144-189: the attempt ends with the outcome o, and the job is saved
\* as RetryOrFail or SetState leave it
PerformAttempt ==
    /\ api.op = "Perform" /\ api.pc = "download"
    /\ \E ok \in BOOLEAN :
        LET j == PerformJob(api.j, api.o)
            next == PerformNext(api.j, api.o, ok)
        IN  /\ store' = IF ok THEN Save(store, j) ELSE store
            /\ api' = [api EXCEPT !.pc = IF next = "idle" THEN "returned" ELSE next,
                                  !.j = j, !.failed = @ \/ ~ok]
    /\ UNCHANGED <<lists, wk, nt, nextId, faults, hist, sub, fields>>

\* QueuePendingDownload line 214: RPUSH of the retried job, then return
PerformRequeue ==
    /\ api.op = "Perform" /\ api.pc = "requeue"
    /\ \E ok \in BOOLEAN :
        /\ lists' = IF ok THEN RPush(lists, PendingDownloadKey(api.j), api.j.ID)
                    ELSE lists
        /\ api' = [api EXCEPT !.pc = "returned", !.failed = @ \/ ~ok]
    /\ UNCHANGED <<store, wk, nt, nextId, faults, hist, sub, fields>>

\* line 191, QueuePendingCallback lines 220-224: CallbackState = Pending, Save
PerformCbSave ==
    /\ api.op = "Perform" /\ api.pc = "cbsave"
    /\ \E ok \in BOOLEAN :
        LET j == QueuePendingCallback(api.j)
        IN  /\ store' = IF ok THEN Save(store, j) ELSE store
            /\ api' = [api EXCEPT !.pc = IF ok THEN "cbpush" ELSE "returned",
                                  !.j = j, !.failed = @ \/ ~ok]
    /\ UNCHANGED <<lists, wk, nt, nextId, faults, hist, sub, fields>>

\* QueuePendingCallback line 225: RPUSH to the callback list, then return
PerformCbPush ==
    /\ api.op = "Perform" /\ api.pc = "cbpush"
    /\ \E ok \in BOOLEAN :
        /\ lists' = IF ok THEN RPush(lists, PendingCallbackKey(api.j), api.j.ID)
                    ELSE lists
        /\ api' = [api EXCEPT !.pc = "returned", !.failed = @ \/ ~ok]
    /\ UNCHANGED <<store, wk, nt, nextId, faults, hist, sub, fields>>

NextPerform ==
    \/ PerformStart
    \/ PerformAttempt
    \/ PerformRequeue
    \/ PerformCbSave
    \/ PerformCbPush

SpecPerform == InitPerform /\ [][NextPerform]_vars

(***************************************************************************)
(* Properties.                                                             *)
(***************************************************************************)
\* the job record of id in the Store st: the fields of its hash that
\* jobFromMap has a case for, decoded as jobFromMap decodes them
PersistedIn(st, id) ==
    [f \in JobFields |->
        IF f \notin DOMAIN st[id] THEN ZeroJob[f]
        ELSE IF f \in IntFields THEN Atoi(st[id][f]).n
        ELSE st[id][f]]
Persisted(id) == PersistedIn(store, id)
Exists(id) == store[id] # EmptyMap
Terminal(state) == state \in {StateSuccess, StateFailed}
Elems(q) == {q[i] : i \in DOMAIN q}
Count(q, id) == Cardinality({i \in DOMAIN q : q[i] = id})
\* workers inside a download attempt (Perform was called and has not
\* returned) on a job of aggregation a: a job they popped from the list of
\* a, or a job whose AggrID is a
Downloading(a) ==
    {w \in Workers :
        /\ wk[w].pc \notin {"idle", "popped"}
        /\ w[1] = a \/ wk[w].j.AggrID = a}
HeldByWorker(id) == \E w \in Workers : wk[w].pc # "idle" /\ wk[w].j.ID = id

C2_TerminalIsEnqueued ==
    [][\A w \in Workers :
        ( /\ wk[w].pc \in {"download", "requeue", "cbsave", "cbpush"}
          /\ wk'[w].pc = "idle"
          /\ faults' = faults
          /\ ~wk[w].wfail
          /\ Terminal(PersistedIn(store', wk[w].j.ID).DownloadState) )
        => /\ wk[w].j.ID \in Elems(lists'[callbackQueue])
           /\ PersistedIn(store', wk[w].j.ID).CallbackState = StatePending]_vars

\* C3: for every job, in the Store and in the memory of the worker or the
\* Notifier that holds it, RetryCount <= maxDownloadRetries and
\* CallbackCount <= maxCallbackRetries.
C3_CountersBounded ==
    /\ \A id \in JobIDs :
        /\ Persisted(id).RetryCount <= maxDownloadRetries
        /\ Persisted(id).CallbackCount <= maxCallbackRetries
    /\ \A w \in Workers : wk[w].j.RetryCount <= maxDownloadRetries
    /\ nt.j.CallbackCount <= maxCallbackRetries

\* C3 witness: a job went through all its download retries and all its
\* callback retries.
C3_Witness ==
    \E id \in JobIDs :
        /\ Persisted(id).RetryCount = maxDownloadRetries
        /\ Persisted(id).DownloadState = StateFailed
        /\ Persisted(id).CallbackCount = maxCallbackRetries
        /\ Persisted(id).CallbackState = StateFailed

\* C4: every job id on the callback list belongs to a job whose persisted
\* DownloadState is Success or Failed.
C4_CallbackListTerminal ==
    \A id \in Elems(lists[callbackQueue]) : Terminal(Persisted(id).DownloadState)

\* C4 witness: a successfully downloaded job and a job that exhausted its
\* retries both wait on the callback list.
C4_Witness ==
    \E id1, id2 \in Elems(lists[callbackQueue]) :
        /\ Persisted(id1).DownloadState = StateSuccess
        /\ Persisted(id2).DownloadState = StateFailed

\* C5: a job id occurs at most once across all pending-download lists and at
\* most once on the callback list.
C5_NoDuplicateIds ==
    \A id \in JobIDs :
        /\ \A a \in Aggrs : Count(lists[RedisJobsKey(a)], id) <= 1
        /\ Cardinality({a \in Aggrs : id \in Elems(lists[RedisJobsKey(a)])}) <= 1
        /\ Count(lists[callbackQueue], id) <= 1

\* C5 witness: a job requeued by a download retry is on its pending list
\* while a job requeued by a callback retry is on the callback list.
C5_Witness ==
    \E id1, id2 \in JobIDs :
        /\ Exists(id1)
        /\ id1 \in Elems(lists[PendingDownloadKey(Persisted(id1))])
        /\ Persisted(id1).RetryCount >= 1
        /\ id2 \in Elems(lists[callbackQueue])
        /\ Persisted(id2).CallbackCount >= 1

\* C6: a step appends a job id to the callback list only if the job's
\* terminal DownloadState was already persisted before the step (and still
\* is after it).
C6_EnqueueAfterPersist ==
    [][\A id \in JobIDs :
        Count(lists'[callbackQueue], id) > Count(lists[callbackQueue], id)
        => /\ Terminal(Persisted(id).DownloadState)
           /\ Terminal(PersistedIn(store', id).DownloadState)]_vars

\* C6 witness: one job was appended to the callback list, and another one,
\* whose Success was persisted, was lost between the two steps (a crash or a
\* failed Store command) and is not on the callback list.
C6_Witness ==
    \E id1, id2 \in JobIDs :
        /\ id1 \in Elems(lists[callbackQueue])
        /\ Persisted(id2).DownloadState = StateSuccess
        /\ id2 \notin Elems(lists[callbackQueue])
        /\ Persisted(id2).CallbackCount = 0
        /\ ~HeldByWorker(id2)
        /\ nt.j.ID # id2

\* C7: Save followed by GetJob on the same id returns, without error, a
\* record equal to the saved one, for records with every field of the record
\* layout (UserAgent included).
C7_SaveGetRoundTrip ==
    (api.op = "GetJob" /\ api.redisOk) => (api.err = nil /\ api.out = api.in)

\* C8: every list changes only by losing its head, to the LPOP of a worker
\* of its aggregation or of the Notifier, which then holds that id, or by
\* gaining one id at its tail (so a retried job stands behind every id that
\* was already on the list).
C8_Fifo ==
    [][\A k \in Keys :
        \/ lists'[k] = lists[k]
        \/ /\ lists[k] # << >>
           /\ lists'[k] = Tail(lists[k])
           /\ \/ \E w \in Workers :
                    /\ wk[w].pc = "idle" /\ wk'[w].pc = "popped"
                    /\ k = RedisJobsKey(w[1])
                    /\ wk'[w].j.ID = Head(lists[k])
              \/ /\ nt.pc = "idle" /\ nt'.pc = "popped"
                 /\ k = callbackQueue
                 /\ nt'.j.ID = Head(lists[k])
        \/ \E id \in StoreKeys : lists'[k] = Append(lists[k], id)]_vars

\* C8 witness: a retried job stands at the tail of its pending list, behind
\* a job that was queued before the retry.
C8_Witness ==
    \E k \in Keys :
        /\ Len(lists[k]) >= 2
        /\ Persisted(lists[k][Len(lists[k])]).RetryCount >= 1
        /\ Persisted(lists[k][1]).RetryCount = 0
        /\ k # callbackQueue

\* C9: a pop of an empty list returns the QueueEmptyError of that list and
\* changes no list and no record; a pop during which a Store command fails
\* (the LPOP, or the HGETALL that follows it) returns an error that is not a
\* QueueEmptyError; a pop returns a job (a nil error) only for an id that
\* its LPOP removed from the head of the list.
C9_PopResults ==
    [][/\ api'.op = "pop" =>
            LET k == api'.key
            IN  /\ (api'.popOk /\ ~api'.got)
                    => /\ lists[k] = << >>
                       /\ api'.err = QueueEmptyError(k)
                       /\ lists' = lists /\ store' = store
                /\ (~api'.popOk \/ ~api'.getOk)
                    => /\ api'.err # nil
                       /\ api'.err \notin {QueueEmptyError(x) : x \in Keys}
                /\ api'.err = nil
                    => /\ api'.got
                       /\ \/ \E w \in Workers :
                                /\ RedisJobsKey(w[1]) = k
                                /\ wk[w] = [IdleWorker EXCEPT !.pc = "popped",
                                                              !.j = Popped(api'.id)]
                                /\ wk'[w] = IdleWorker
                          \/ /\ k = callbackQueue
                             /\ nt = [pc |-> "popped", j |-> Popped(api'.id)]
                             /\ nt' = IdleNotifier
       /\ \A w \in Workers :
            (wk[w].pc = "idle" /\ wk'[w].pc = "popped")
            => LET k == RedisJobsKey(w[1])
               IN  /\ lists[k] # << >>
                   /\ wk'[w].j.ID = Head(lists[k])
                   /\ lists'[k] = Tail(lists[k])
       /\ (nt.pc = "idle" /\ nt'.pc = "popped")
            => /\ lists[callbackQueue] # << >>
               /\ nt'.j.ID = Head(lists[callbackQueue])
               /\ lists'[callbackQueue] = Tail(lists[callbackQueue])]_vars

\* every attempt of the job so far ended in RetryOrFail
AllRetriable(id) == hist[id].retr = hist[id].att

\* the id is on the callback list, or the Notifier has taken it from there
WasEnqueued(id) ==
    \/ id \in Elems(lists[callbackQueue])
    \/ nt.j.ID = id
    \/ Persisted(id).CallbackCount >= 1

\* the job is over: terminal, and enqueued for callback if it is Failed
\* after retriable failures only
Settled(id) ==
    /\ Terminal(Persisted(id).DownloadState)
    /\ (Persisted(id).DownloadState = StateFailed /\ AllRetriable(id))
        => WasEnqueued(id)

\* C10: under fair scheduling every submitted job reaches a terminal
\* DownloadState, unless a Store command fails or a process crashes; and as
\* long as none does, a job whose attempts all failed retriably is Failed
\* after exactly maxDownloadRetries + 1 attempts with RetryCount =
\* maxDownloadRetries and is enqueued for callback, and a job that succeeds
\* after k retriable failures ends with RetryCount = k.
C10_Terminates ==
    /\ \A id \in JobIDs : Exists(id) ~> (Settled(id) \/ faults > 0)
    /\ [](faults = 0 =>
            \A id \in JobIDs :
                /\ hist[id].att <= maxDownloadRetries + 1
                /\ (Persisted(id).DownloadState = StateFailed /\ AllRetriable(id))
                    => /\ hist[id].att = maxDownloadRetries + 1
                       /\ Persisted(id).RetryCount = maxDownloadRetries
                /\ Persisted(id).DownloadState = StateSuccess
                    => /\ Persisted(id).RetryCount = hist[id].retr
                       /\ hist[id].att = hist[id].retr + 1
                       /\ hist[id].retr <= maxDownloadRetries)

\* the pending-download lists that hold the id
PendingListsOf(id) == {a \in Aggrs : id \in Elems(lists[RedisJobsKey(a)])}

\* C11: when the LPOP of a worker takes a job id from a pending-download
\* list, the persisted DownloadState of that job is Pending or InProgress,
\* and it still is when the HGETALL of the pop reads the record, which then
\* hands the worker a job in one of these states; and the id of a job whose
\* persisted DownloadState is Success or Failed is on no pending-download
\* list, nor does a step put it on one.
C11_PendingListStates ==
    /\ [](\A id \in JobIDs :
            Terminal(Persisted(id).DownloadState) => PendingListsOf(id) = {})
    /\ [][/\ \A w \in Workers :
                /\ (wk[w].pc = "idle" /\ wk'[w].pc = "popped")
                    => /\ lists[RedisJobsKey(w[1])] # << >>
                       /\ wk'[w].j.ID = Head(lists[RedisJobsKey(w[1])])
                       /\ Persisted(wk'[w].j.ID).DownloadState
                            \in {StatePending, StateInProgress}
                /\ (wk[w].pc = "popped" /\ wk'[w].pc = "perform")
                    => /\ Persisted(wk[w].j.ID).DownloadState
                            \in {StatePending, StateInProgress}
                       /\ faults' = faults
                            => /\ wk'[w].j.ID = wk[w].j.ID
                               /\ wk'[w].j.DownloadState
                                    \in {StatePending, StateInProgress}
           /\ \A id \in JobIDs, a \in Aggrs :
                Count(lists'[RedisJobsKey(a)], id) > Count(lists[RedisJobsKey(a)], id)
                => /\ ~Terminal(Persisted(id).DownloadState)
                   /\ ~Terminal(PersistedIn(store', id).DownloadState)]_vars

\* C11 witness: a worker has just popped a job that a retry had requeued,
\* and read its record, while another job, Success or Failed, waits on the
\* callback list.
C11_Witness ==
    \E w \in Workers, id2 \in JobIDs :
        /\ wk[w].pc = "perform"
        /\ wk[w].j.RetryCount >= 1
        /\ Persisted(wk[w].j.ID).DownloadState = StatePending
        /\ Terminal(Persisted(id2).DownloadState)
        /\ id2 \in Elems(lists[callbackQueue])

\* C12: Aggregation.Remove changes nothing but the record aggr:<id>, which
\* it deletes (and nothing at all when the command fails): every list and
\* every other record stay as they were; and a pop from the list of an
\* aggregation whose record is gone still takes the head of the list and
\* returns the job of that id.
C12_RemoveKeepsJobs ==
    [][/\ api'.op = "Remove" =>
            /\ lists' = lists
            /\ \A k \in DOMAIN store :
                    k # RedisKey(api'.aggr) => store'[k] = store[k]
            /\ api'.err = nil => ~AggregationExists(store', api'.aggr)
            /\ api'.err # nil => store' = store
       /\ \A a \in Aggrs :
            LET k == RedisJobsKey(a)
            IN  ( /\ ~AggregationExists(store, a)
                  /\ api'.op \in {"pop", "LPOP"} /\ api'.key = k ) =>
                    /\ (api'.op = "pop" /\ api'.popOk /\ ~api'.got)
                        => lists[k] = << >>
                    /\ api'.op = "LPOP"
                        => /\ api'.id = Head(lists[k])
                           /\ lists'[k] = Tail(lists[k])
                    /\ (api'.op = "pop" /\ api'.got /\ api'.getOk)
                        => /\ api'.err = nil
                           /\ api'.j.ID = api'.id]_vars

\* C12 witness: the record of an aggregation was removed, and a pop then
\* returned the first of the two jobs queued on its list.
C12_Witness ==
    \E a \in Aggrs :
        /\ ~AggregationExists(store, a)
        /\ api.op = "pop" /\ api.key = RedisJobsKey(a) /\ api.err = nil
        /\ api.got /\ api.j.ID = api.id
        /\ Len(lists[RedisJobsKey(a)]) = 1
        /\ api.j.ID # lists[RedisJobsKey(a)][1]

Has(in, key) == key \in DOMAIN in.obj
\* the member is missing or is not of type t
NotA(in, key, t) == ~Has(in, key) \/ in.obj[key].t # t

\* C13: Aggregation.UnmarshalJSON returns an error exactly when aggr_id is
\* missing, not a string or empty; or aggr_limit is missing, not a number
\* or <= 0; or aggr_proxy is a non-empty string that is not an absolute URL;
\* or aggr_timeout is present and null, not a number or <= 0.
C13_AggregationRejects ==
    api.op = "AggregationUnmarshalJSON" =>
        LET in == api.in
        IN  (api.err # nil) <=>
            \/ NotA(in, "aggr_id", "string") \/ in.obj["aggr_id"].v = << >>
            \/ NotA(in, "aggr_limit", "number") \/ in.obj["aggr_limit"].v <= 0
            \/ /\ ~NotA(in, "aggr_proxy", "string")
               /\ in.obj["aggr_proxy"].v # << >>
               /\ ~IsAbsoluteURL(in.obj["aggr_proxy"].v)
            \/ /\ Has(in, "aggr_timeout")
               /\ NotA(in, "aggr_timeout", "number") \/ in.obj["aggr_timeout"].v <= 0

\* C14: after Aggregation.UnmarshalJSON returned no error, Timeout is
\* positive: the submitted aggr_timeout when there is one, the default 10
\* otherwise.
C14_TimeoutPositive ==
    (api.op = "AggregationUnmarshalJSON" /\ api.err = nil) =>
        /\ api.a.Timeout > 0
        /\ api.a.Timeout = IF Has(api.in, "aggr_timeout")
                           THEN api.in.obj["aggr_timeout"].v
                           ELSE defaultTimeout

\* the member is missing or is a string
AbsentOrString(in, key) == ~Has(in, key) \/ in.obj[key].t = "string"

\* C15: Job.UnmarshalJSON returns an error when the text is not JSON, when
\* aggr_id is missing, empty or not a string, when url is missing, empty or
\* not an absolute URL, when callback_url is not an absolute URL, or when
\* user_agent is present and null or not a string; it returns none, and
\* changes no record and no list, when aggr_id, url and callback_url are
\* valid, extra is absent or a string and user_agent is absent or a string.
C15_JobRejects ==
    api.op = "JobUnmarshalJSON" =>
        LET in == api.in
            bad == \/ ~in.ok
                   \/ NotA(in, "aggr_id", "string") \/ in.obj["aggr_id"].v = << >>
                   \/ NotA(in, "url", "string") \/ ~IsAbsoluteURL(in.obj["url"].v)
                   \/ NotA(in, "callback_url", "string")
                   \/ ~IsAbsoluteURL(in.obj["callback_url"].v)
                   \/ Has(in, "user_agent") /\ in.obj["user_agent"].t # "string"
            good == /\ in.ok
                    /\ ~NotA(in, "aggr_id", "string") /\ in.obj["aggr_id"].v # << >>
                    /\ ~NotA(in, "url", "string") /\ IsAbsoluteURL(in.obj["url"].v)
                    /\ ~NotA(in, "callback_url", "string")
                    /\ IsAbsoluteURL(in.obj["callback_url"].v)
                    /\ AbsentOrString(in, "extra")
                    /\ AbsentOrString(in, "user_agent")
        IN  /\ bad => api.err # nil
            /\ good => api.err = nil
            /\ store = EmptyStore /\ lists = EmptyLists

\* C15 witness: a submission with an empty user_agent and no extra was
\* accepted.
C15_Witness ==
    /\ api.op = "JobUnmarshalJSON"
    /\ api.err = nil
    /\ Has(api.in, "user_agent") /\ api.in.obj["user_agent"].v = << >>
    /\ ~Has(api.in, "extra")
    /\ api.j.URL = StrHttpFoobarCom

\* CallbackInfo{}
ZeroCallbackInfo == [Success |-> FALSE, Error |-> "", Extra |-> "", DownloadURL |-> ""]

\* C16: callbackInfo returns an error and the empty envelope when the job's
\* DownloadState is neither Success nor Failed; otherwise it returns no
\* error and an envelope with success = (DownloadState = Success), error =
\* Meta and extra = Extra; it writes nothing to the Store.
C16_CallbackInfo ==
    api.op = "callbackInfo" =>
        /\ ~Terminal(api.in.DownloadState)
            => api.err # nil /\ api.info = ZeroCallbackInfo
        /\ Terminal(api.in.DownloadState)
            => /\ api.err = nil
               /\ api.info.Success = (api.in.DownloadState = StateSuccess)
               /\ api.info.Error = api.in.Meta
               /\ api.info.Extra = api.in.Extra
        /\ store = EmptyStore /\ lists = EmptyLists

\* C16 witness: the envelope of a Failed job carries its Meta and Extra.
C16_Witness ==
    /\ api.op = "callbackInfo"
    /\ api.in.DownloadState = StateFailed
    /\ api.err = nil
    /\ ~api.info.Success
    /\ api.info.Error = "Received Status Code 400"
    /\ api.info.Extra = "whatever"

\* how an attempt ended, by what happened on the wire and on the disk (spec
\* 4.3, 7): "permanent" for an HTTP 4xx response and for a failure of the
\* certificate or of TLS, "success" for a body streamed to the file,
\* "retriable" for everything else (HTTP 5xx, a refused connection, a
\* timeout, a cancelled request, a file or stream error)
OutcomeClass(o) ==
    IF o.kind = "resp" /\ o.code >= 400 /\ o.code <= 499 THEN "permanent"
    ELSE IF o.kind = "doErr" /\ o.cause \in {"certificate", "tlsAlert"} THEN "permanent"
    ELSE IF o.kind = "resp" /\ o.code < 400 THEN "success"
    ELSE "retriable"

\* the Meta of a job failed for the outcome o, an HTTP 4xx response or a
\* TLS/certificate error
PermanentMeta(o) ==
    IF o.kind = "resp" THEN "Received Status Code " \o Concat(Itoa(o.code))
    ELSE "TLS Error occured, " \o o.err

\* C17: when a download attempt has ended with an HTTP 4xx response or a
\* TLS/certificate error of the transport (and no Store write of it failed),
\* the job is persisted Failed with a Meta naming the status code or the
\* error, its RetryCount is the one it had, its id is not on its
\* pending-download list and Perform has returned; when it has ended with any other failure the job went
\* through RetryOrFail: RetryCount + 1 and a requeue as Pending, or Failed
\* and on to the callback once RetryCount = maxDownloadRetries.
C17_PermanentFailures ==
    ( /\ api.op = "Perform" /\ api.pc \notin {"start", "download"}
      /\ ~api.failed )
    => LET id == api.in.ID
           after == Persisted(id)
       IN  /\ OutcomeClass(api.o) = "permanent"
                => /\ after.DownloadState = StateFailed
                   /\ after.Meta = PermanentMeta(api.o)
                   /\ after.RetryCount = api.in.RetryCount
                   /\ lists[PendingDownloadKey(api.in)] = << >>
                   /\ api.pc = "returned"
           /\ OutcomeClass(api.o) = "retriable"
                => IF api.in.RetryCount < maxDownloadRetries
                   THEN /\ after.RetryCount = api.in.RetryCount + 1
                        /\ after.DownloadState = StatePending
                        /\ \/ api.pc = "requeue"
                           \/ /\ api.pc = "returned"
                              /\ lists[PendingDownloadKey(api.in)] = <<id>>
                   ELSE /\ after.RetryCount = maxDownloadRetries
                        /\ after.DownloadState = StateFailed
                        /\ \/ api.pc \in {"cbsave", "cbpush"}
                           \/ /\ api.pc = "returned"
                              /\ lists[callbackQueue] = <<id>>

\* C18: a job whose persisted DownloadState is Failed has RetryCount =
\* maxDownloadRetries, or the attempt that failed it ended with a
\* non-retriable error (HTTP 4xx or TLS/certificate).
C18_FailedOnlyWhenExhausted ==
    api.op = "Perform" =>
        \A id \in JobIDs :
            Persisted(id).DownloadState = StateFailed
            => \/ Persisted(id).RetryCount = maxDownloadRetries
               \/ /\ id = api.in.ID
                  /\ api.pc \notin {"start", "download"}
                  /\ OutcomeClass(api.o) = "permanent"

\* C19: once the persisted DownloadState of a job is Success or Failed no
\* step changes it; and a persisted DownloadState becomes Pending again only
\* from InProgress, together with an increment of RetryCount.
C19_TerminalAbsorbing ==
    [][\A id \in JobIDs :
        LET before == Persisted(id)
            after == PersistedIn(store', id)
        IN  store'[id] # store[id] =>
            /\ Terminal(before.DownloadState)
                => after.DownloadState = before.DownloadState
            /\ ( /\ Exists(id)
                  /\ before.DownloadState # StatePending
                  /\ after.DownloadState = StatePending )
                => /\ before.DownloadState = StateInProgress
                   /\ after.RetryCount = before.RetryCount + 1]_vars

\* C19 witness: a Success job went through a retried callback (the Notifier
\* and QueuePendingCallback wrote its record twice) and is still Success,
\* while another job is Pending again after a retry.
C19_Witness ==
    \E id1, id2 \in JobIDs :
        /\ Persisted(id1).DownloadState = StateSuccess
        /\ Persisted(id1).CallbackCount >= 2
        /\ Persisted(id1).CallbackState = StateSuccess
        /\ Persisted(id2).DownloadState = StatePending
        /\ Persisted(id2).RetryCount >= 1

\* C20: GetJob of an id that has no record in the Store returns an error
\* (NotFound); and a pop that takes from its list the id of a job without a
\* record returns an error, not a job.
C20_MissingIsNotFound ==
    /\ []((api.op = "GetJob" /\ ~Exists(api.id)) => api.err # nil)
    /\ [][(api'.op = "pop" /\ api'.got /\ ~Exists(api'.id))
            => api'.err # nil]_vars

\* C21: a download attempt that the shutdown cancellation interrupts leaves
\* RetryCount as it was, in memory and in the Store, does not put the job
\* id back on its pending-download list, and does not set DownloadState to
\* Failed: all this holds when Perform has returned.
C21_ShutdownIsNoError ==
    ( /\ api.op = "Perform" /\ api.pc = "returned"
      /\ api.o.kind = "doErr" /\ api.o.err \in ShutdownErrors )
    => /\ api.j.RetryCount = api.in.RetryCount
       /\ Persisted(api.in.ID).RetryCount = api.in.RetryCount
       /\ PendingListsOf(api.in.ID) = {}
       /\ api.j.DownloadState # StateFailed
       /\ Persisted(api.in.ID).DownloadState # StateFailed

\* C22: a job whose DownloadState is Success has an empty Meta, in memory
\* and in the Store, at every command of Perform from SetState(StateSuccess)
\* on, so when its id is pushed to the callback list the error of its
\* callback envelope is empty, whatever Meta held before; and a Perform
\* that returns with Success and no failed command has pushed the id.
C22_SuccessClearsMeta ==
    api.op = "Perform" =>
        /\ api.j.DownloadState = StateSuccess => api.j.Meta = ""
        /\ Persisted(api.in.ID).DownloadState = StateSuccess
            => /\ Persisted(api.in.ID).Meta = ""
               /\ callbackInfo(Persisted(api.in.ID)).info.Error = ""
        /\ ( /\ api.in.ID \in Elems(lists[callbackQueue])
             /\ api.j.DownloadState = StateSuccess )
            => Persisted(api.in.ID) = api.j
        /\ (api.pc = "returned" /\ ~api.failed /\ api.j.DownloadState = StateSuccess)
            => lists[callbackQueue] = <<api.in.ID>>

\* C22 witness: a job that had been retried twice and whose Meta held an
\* error was downloaded, and Perform has put it on the callback list.
C22_Witness ==
    /\ api.op = "Perform" /\ api.pc = "returned"
    /\ api.in.Meta # ""
    /\ api.in.RetryCount = 2
    /\ Persisted(api.in.ID).DownloadState = StateSuccess
    /\ Persisted(api.in.ID).RetryCount = 2
    /\ lists[callbackQueue] = <<api.in.ID>>

====
